---- MODULE Spec2Model ----
(***************************************************************************)
(* Model of the cfssl-sidekick acquisition / rotation loop                 *)
(* (controller.run, controller.handleCertificateResponse) together with    *)
(* the operational-timeout watchdog and the reload-hook child process.     *)
(* Time is a discrete clock `now` counted in seconds; it advances only     *)
(* while the loop is at one of its suspension points and never past a      *)
(* timer that is due.                                                      *)
(***************************************************************************)
EXTENDS Integers, Sequences, FiniteSets, TLC

\* ---------------------------------------------------------------- bounds
MaxTime == 13
MaxAttempts == 3
MaxChanCap == 0

\* ------------------------------------------------------- program constants
RetryBackoff == 5
FileMode0600 == 600

\* ------------------------------------------------------------ input domains
Timeouts == {3, 12}
Expiries == {1, 7}
RequestTimes == {0, 4}
HookTimes == {0, 3}
CertTexts == {<<>>, <<1>>}
BundleTexts == {<<>>, <<1, 2>>}
ErrorLists == {<<>>, <<"m1", "m2">>}
OldFiles == {[exists |-> FALSE, content |-> <<>>, mode |-> 0],
             [exists |-> TRUE, content |-> <<7, 8, 9>>, mode |-> 644]}
StartupFailures == {"invalid_config", "http_client", "mkdir", "csr", "encode"}
Tokens == {"", "secret"}
KeyMaterials == {"k1", "k2"}
EndpointProfile == "server"
NoCsr == "none"

Responses == [success : BOOLEAN, errors : ErrorLists,
              certificate : CertTexts, bundle : BundleTexts]

NoResponse == [success |-> FALSE, errors |-> <<>>, certificate |-> <<>>, bundle |-> <<>>]
NoError == <<>>

VARIABLES
    Onetime, ExecCommand, Timeout, Expiry,  \* Config, fixed after Init
    EndpointToken,
    keyMaterial,    \* the private key this process generates
    encoded,        \* the PEM-encoded CSR built before the loop
    nCsr,           \* number of keys / CSRs created by createCertificateRequest
    sent,           \* the distinct requests put on the wire
    nPosts,         \* number of HTTP POSTs issued
    doneChCap,      \* capacity of the channel makeOperationTimeout returns
    now,            \* clock
    proc,           \* "running", "exit0", "exit1", "fatal", "panic"
    pc,             \* position of the rotation loop
    wakeAt,         \* end of the current time.Sleep
    sleepDur,       \* argument of the current / last time.Sleep
    wd,             \* watchdog: "off", "waiting", "done", "fired"
    wdDeadline,
    doneBuf,        \* values sitting in the channel buffer
    reqDoneAt,      \* time at which the HTTP exchange in flight completes
    response,       \* the decoded SigningResponse being handled
    file,           \* the certificate file
    hook,           \* child: "none", "notstarted", "running", "zombie", "reaped"
    hookStatus,     \* "none", "ok", "failed", "killed"
    timer,          \* kill timer: "off", "armed", "fired", "stopped"
    hookDeadline,
    hookExitAt,     \* time at which the running child exits by itself
    lastErr,        \* error returned by the last failed call of the attempt
    nlog,           \* number of lines logged, per message
    outcomes,       \* outcome of every finished attempt, in order
    nRequests, nBackoff, nWrites, nHook, nSignals, nKills

cfgvars == <<Onetime, ExecCommand, Timeout, Expiry, doneChCap, EndpointToken,
            keyMaterial>>
csrvars == <<encoded, nCsr>>
wirevars == <<sent, nPosts>>
vars == <<Onetime, ExecCommand, Timeout, Expiry, doneChCap, EndpointToken,
          keyMaterial, encoded, nCsr, sent, nPosts, now, proc, pc,
          wakeAt, sleepDur, wd, wdDeadline, doneBuf, reqDoneAt, response, file,
          hook, hookStatus, timer, hookDeadline, hookExitAt, lastErr, nlog, outcomes,
          nRequests, nBackoff, nWrites, nHook, nSignals, nKills>>

LogMessages == {"signing_failed", "process_failed", "wrote", "onetime",
                "sleep", "timed_out", "command_error", "fatal_timeout"}

Logged(l, m) == [l EXCEPT ![m] = @ + 1]

\* encodeCertificateRequest: the PEM block of the CSR made for the key.
encodeCertificateRequest(key) == <<"CERTIFICATE REQUEST", key>>

CsrEncodings == {encodeCertificateRequest(k) : k \in KeyMaterials}

\* The state after construction, for a configuration drawn from the given
\* tokens, keys, timeouts and rotation intervals.
InitWith(tokens, keys, timeouts, expiries) ==
    /\ Onetime \in BOOLEAN
    /\ ExecCommand \in {"", "reload"}
    /\ Timeout \in timeouts
    /\ Expiry \in expiries
    /\ doneChCap \in 0..MaxChanCap
    /\ EndpointToken \in tokens
    /\ keyMaterial \in keys
    /\ encoded = NoCsr
    /\ nCsr = 0
    /\ sent = {}
    /\ nPosts = 0
    /\ now = 0
    /\ proc = "running"
    /\ pc = "idle"
    /\ wakeAt = 0
    /\ sleepDur = 0
    /\ wd = "off"
    /\ wdDeadline = 0
    /\ doneBuf = 0
    /\ reqDoneAt = 0
    /\ response = NoResponse
    /\ file \in OldFiles
    /\ hook = "none"
    /\ hookStatus = "none"
    /\ timer = "off"
    /\ hookDeadline = 0
    /\ hookExitAt = 0
    /\ lastErr = NoError
    /\ nlog = [m \in LogMessages |-> 0]
    /\ outcomes = <<>>
    /\ nRequests = 0
    /\ nBackoff = 0
    /\ nWrites = 0
    /\ nHook = 0
    /\ nSignals = 0
    /\ nKills = 0

\* Every timeout and rotation interval, without a token.
Init == InitWith({""}, {"k1"}, Timeouts, Expiries)

\* Every token and key, with the short timeout and the long rotation interval.
InitWire == InitWith(Tokens, KeyMaterials, {3}, {7})

Running == proc = "running"

\* Variant of StartupFail: the error is reported but the loop is entered.
StartupFail_Continues ==
    /\ Running /\ pc = "idle"
    /\ \E f \in StartupFailures : lastErr' = <<f>>
    /\ pc' = "top"
    /\ UNCHANGED <<cfgvars, csrvars, wirevars, reqDoneAt, hookExitAt, now, proc,
                   wakeAt, sleepDur, wd, wdDeadline, doneBuf, response, file,
                   hook, hookStatus, timer, hookDeadline, nlog, outcomes,
                   nRequests, nBackoff, nWrites, nHook, nSignals, nKills>>

\* main.go Action + newController + the head of controller.run: any failure
\* before the loop is reported and the process exits with status 1.
StartupFail ==
    /\ Running /\ pc = "idle"
    /\ \E f \in StartupFailures : lastErr' = <<f>>
    /\ proc' = "exit1"
    /\ UNCHANGED <<cfgvars, csrvars, wirevars, reqDoneAt, hookExitAt, now, pc, wakeAt, sleepDur, wd, wdDeadline, doneBuf,
                   response, file, hook, hookStatus, timer, hookDeadline, nlog,
                   outcomes, nRequests, nBackoff, nWrites, nHook, nSignals, nKills>>

\* makeOperationTimeout: start the watchdog, which waits for one value on the
\* channel or for the operational timeout, whichever comes first.
makeOperationTimeout ==
    /\ wd' = "waiting"
    /\ wdDeadline' = now + Timeout
    /\ doneBuf' = 0

\* createCertificateRequest and encodeCertificateRequest, called once at the
\* head of controller.run: one key, one CSR, one encoding.
createCertificateRequest ==
    /\ encoded' = encodeCertificateRequest(keyMaterial)
    /\ nCsr' = nCsr + 1

\* controller.run up to the loop: the CSR is built and encoded, then the
\* watchdog is started.
StartupOk ==
    /\ Running /\ pc = "idle"
    /\ createCertificateRequest
    /\ makeOperationTimeout
    /\ pc' = "top"
    /\ UNCHANGED <<cfgvars, wirevars, reqDoneAt, hookExitAt, now, proc, wakeAt, sleepDur, response, file, hook,
                   hookStatus, timer, hookDeadline, lastErr, nlog, outcomes,
                   nRequests, nBackoff, nWrites, nHook, nSignals, nKills>>

\* ------------------------------------------------------------ rotation loop

\* The SigningRequest built at the top of every iteration.
SigningRequest(csr) ==
    [certificate_request |-> csr, profile |-> EndpointProfile, bundle |-> TRUE]

\* Variant of doSigningRequest: the token is ignored.
doSigningRequest_AlwaysAnonymous(token, request) ==
    [path |-> "/api/v1/cfssl/sign", body |-> <<request>>]

\* doSigningRequest, up to the POST: the path and the JSON body, the plain
\* request without a token and the token-wrapped request with one.
doSigningRequest(token, request) ==
    IF token = ""
    THEN [path |-> "/api/v1/cfssl/sign", body |-> <<request>>]
    ELSE [path |-> "/api/v1/cfssl/authsign", body |-> <<token, request>>]

\* Variant of BeginAttempt: the CSR is built and encoded inside the loop.
BeginAttempt_RebuildsCsr ==
    /\ Running /\ pc = "top"
    /\ nRequests < MaxAttempts
    /\ pc' = "requesting"
    /\ nRequests' = nRequests + 1
    /\ lastErr' = NoError
    /\ \E k \in KeyMaterials : encoded' = encodeCertificateRequest(k)
    /\ nCsr' = nCsr + 1
    /\ sent' = sent \cup {doSigningRequest(EndpointToken, SigningRequest(encoded'))}
    /\ nPosts' = nPosts + 1
    /\ \E d \in RequestTimes : reqDoneAt' = now + d
    /\ UNCHANGED <<cfgvars, hookExitAt, now, proc, wakeAt, sleepDur, wd,
                   wdDeadline, doneBuf, response, file, hook, hookStatus,
                   timer, hookDeadline, nlog, outcomes, nBackoff, nWrites,
                   nHook, nSignals, nKills>>

\* controller.run, top of the for loop: build the SigningRequest and call
\* doSigningRequest (one POST).
BeginAttempt ==
    /\ Running /\ pc = "top"
    /\ nRequests < MaxAttempts
    /\ pc' = "requesting"
    /\ nRequests' = nRequests + 1
    /\ lastErr' = NoError
    /\ sent' = sent \cup {doSigningRequest(EndpointToken, SigningRequest(encoded))}
    /\ nPosts' = nPosts + 1
    /\ \E d \in RequestTimes : reqDoneAt' = now + d
    /\ UNCHANGED <<cfgvars, csrvars, hookExitAt, now, proc, wakeAt, sleepDur, wd, wdDeadline, doneBuf,
                   response, file, hook, hookStatus, timer, hookDeadline, nlog,
                   outcomes, nBackoff, nWrites, nHook, nSignals, nKills>>

\* The two `time.Sleep(5 * time.Second); continue` branches of controller.run.
Backoff(message, outcome, err) ==
    /\ nlog' = Logged(nlog, message)
    /\ lastErr' = err
    /\ outcomes' = Append(outcomes, outcome)
    /\ pc' = "backoff"
    /\ sleepDur' = RetryBackoff
    /\ wakeAt' = now + RetryBackoff
    /\ nBackoff' = nBackoff + 1

\* Variant of SigningFails: the failed request is retried without a sleep.
SigningFails_NoSleep ==
    /\ Running /\ pc = "requesting"
    /\ now >= reqDoneAt
    /\ nlog' = Logged(nlog, "signing_failed")
    /\ lastErr' = <<"transport">>
    /\ outcomes' = Append(outcomes, "transport")
    /\ pc' = "top"
    /\ response' = NoResponse
    /\ UNCHANGED <<cfgvars, csrvars, wirevars, reqDoneAt, hookExitAt, now, proc, wakeAt, sleepDur,
                   wd, wdDeadline, doneBuf, file, hook, hookStatus,
                   timer, hookDeadline, nRequests, nBackoff, nWrites, nHook,
                   nSignals, nKills>>

\* doSigningRequest returned (nil, err): transport, read or decode error.
SigningFails ==
    /\ Running /\ pc = "requesting"
    /\ now >= reqDoneAt
    /\ response' = NoResponse
    /\ Backoff("signing_failed", "transport", <<"transport">>)
    /\ UNCHANGED <<cfgvars, csrvars, wirevars, reqDoneAt, hookExitAt, now, proc, wd, wdDeadline, doneBuf, file,
                   hook, hookStatus, timer, hookDeadline, nRequests, nWrites,
                   nHook, nSignals, nKills>>

\* doSigningRequest returned a decoded response.
SigningResponds ==
    /\ Running /\ pc = "requesting"
    /\ now >= reqDoneAt
    /\ \E r \in Responses : response' = r
    /\ pc' = "handle"
    /\ UNCHANGED <<cfgvars, csrvars, wirevars, reqDoneAt, hookExitAt, now, proc, wakeAt, sleepDur, wd, wdDeadline, doneBuf,
                   file, hook, hookStatus, timer, hookDeadline, lastErr, nlog,
                   outcomes, nRequests, nBackoff, nWrites, nHook, nSignals, nKills>>

\* --------------------------------------------- handleCertificateResponse

\* Variant of Validate: the last error entry is surfaced instead of the first.
Validate_LastError(r) ==
    IF ~r.success
    THEN IF Len(r.errors) = 0 THEN <<"panic">>
         ELSE <<"unsuccessful operation, errors:", r.errors[Len(r.errors)]>>
    ELSE IF r.certificate = <<>> THEN <<"no certificate found in the response">>
         ELSE NoError

\* Variant of Validate: the empty-certificate check is missing.
Validate_NoCertificateCheck(r) ==
    IF ~r.success
    THEN IF Len(r.errors) = 0 THEN <<"panic">>
         ELSE <<"unsuccessful operation, errors:", r.errors[1]>>
    ELSE NoError

\* The two checks at the head of the handler: "panic" when Errors[0] is
\* evaluated on an empty list, an error, or NoError when the response passes.
Validate(r) ==
    IF ~r.success
    THEN IF Len(r.errors) = 0 THEN <<"panic">>
         ELSE <<"unsuccessful operation, errors:", r.errors[1]>>
    ELSE IF r.certificate = <<>> THEN <<"no certificate found in the response">>
         ELSE NoError

\* content := certificate, replaced by the bundle when there is one.
Content(r) == IF r.bundle # <<>> THEN r.bundle ELSE r.certificate

\* Variant of OpenFile: O_TRUNC is missing.
OpenFile_NoTrunc(f) ==
    IF f.exists THEN f
    ELSE [exists |-> TRUE, content |-> <<>>, mode |-> FileMode0600]

\* os.OpenFile(O_CREATE|O_TRUNC|O_RDWR, 0600): the mode is applied only when
\* the file is created; an existing file is truncated and keeps its mode.
OpenFile(f) ==
    IF f.exists THEN [f EXCEPT !.content = <<>>]
    ELSE [exists |-> TRUE, content |-> <<>>, mode |-> FileMode0600]

\* file.WriteString(content) written in full.
WriteString(f, content) == [f EXCEPT !.content = f.content \o content]

Prefixes(t) == {SubSeq(t, 1, n) : n \in 0..(Len(t) - 1)}

HandlePanics ==
    /\ Running /\ pc = "handle"
    /\ Validate(response) = <<"panic">>
    /\ proc' = "panic"
    /\ outcomes' = Append(outcomes, "panic")
    /\ UNCHANGED <<cfgvars, csrvars, wirevars, reqDoneAt, hookExitAt, now, pc, wakeAt, sleepDur, wd, wdDeadline, doneBuf,
                   response, file, hook, hookStatus, timer, hookDeadline,
                   lastErr, nlog, nRequests, nBackoff, nWrites, nHook,
                   nSignals, nKills>>

\* Variant of HandleRejects: the file is opened before the response is checked.
HandleRejects_OpensFirst ==
    /\ Running /\ pc = "handle"
    /\ Validate(response) \notin {NoError, <<"panic">>}
    /\ file' = OpenFile(file)
    /\ Backoff("process_failed", "rejected", Validate(response))
    /\ UNCHANGED <<cfgvars, csrvars, wirevars, reqDoneAt, hookExitAt, now, proc,
                   wd, wdDeadline, doneBuf, response, hook, hookStatus, timer,
                   hookDeadline, nRequests, nWrites, nHook, nSignals, nKills>>


HandleRejects ==
    /\ Running /\ pc = "handle"
    /\ Validate(response) \notin {NoError, <<"panic">>}
    /\ Backoff("process_failed", "rejected", Validate(response))
    /\ UNCHANGED <<cfgvars, csrvars, wirevars, reqDoneAt, hookExitAt, now, proc, wd, wdDeadline, doneBuf, response, file,
                   hook, hookStatus, timer, hookDeadline, nRequests, nWrites,
                   nHook, nSignals, nKills>>

HandleOpenFails ==
    /\ Running /\ pc = "handle"
    /\ Validate(response) = NoError
    /\ Backoff("process_failed", "open", <<"open">>)
    /\ UNCHANGED <<cfgvars, csrvars, wirevars, reqDoneAt, hookExitAt, now, proc, wd, wdDeadline, doneBuf, response, file,
                   hook, hookStatus, timer, hookDeadline, nRequests, nWrites,
                   nHook, nSignals, nKills>>

\* The file was opened (created or truncated) and WriteString failed after
\* writing only a proper prefix of the content.
HandleWriteFails ==
    /\ Running /\ pc = "handle"
    /\ Validate(response) = NoError
    /\ \E part \in Prefixes(Content(response)) :
           file' = WriteString(OpenFile(file), part)
    /\ nWrites' = nWrites + 1
    /\ Backoff("process_failed", "write", <<"write">>)
    /\ UNCHANGED <<cfgvars, csrvars, wirevars, reqDoneAt, hookExitAt, now, proc, wd, wdDeadline, doneBuf, response,
                   hook, hookStatus, timer, hookDeadline, nRequests,
                   nHook, nSignals, nKills>>

\* The content was written and no reload command is configured: the handler
\* returns nil and run logs the success.
HandleWritesNoCommand ==
    /\ Running /\ pc = "handle"
    /\ Validate(response) = NoError
    /\ ExecCommand = ""
    /\ file' = WriteString(OpenFile(file), Content(response))
    /\ nWrites' = nWrites + 1
    /\ nlog' = Logged(nlog, "wrote")
    /\ outcomes' = Append(outcomes, "ok")
    /\ pc' = "signal"
    /\ UNCHANGED <<cfgvars, csrvars, wirevars, reqDoneAt, hookExitAt, now, proc, wakeAt, sleepDur, wd, wdDeadline, doneBuf,
                   response, hook, hookStatus, timer, hookDeadline, lastErr,
                   nRequests, nBackoff, nHook, nSignals, nKills>>

\* Variant of HandleWritesAndStartsCommand: the command is run without the
\* test that one is configured.
HandleWritesAndStartsCommand_NoGuard ==
    /\ Running /\ pc = "handle"
    /\ Validate(response) = NoError
    /\ file' = WriteString(OpenFile(file), Content(response))
    /\ nWrites' = nWrites + 1
    /\ \E started \in BOOLEAN :
           hook' = IF started THEN "running" ELSE "notstarted"
    /\ hookStatus' = "none"
    /\ nHook' = nHook + 1
    /\ timer' = "armed"
    /\ hookDeadline' = now + Timeout
    /\ \E d \in HookTimes : hookExitAt' = now + d
    /\ pc' = "hookwait"
    /\ UNCHANGED <<cfgvars, csrvars, wirevars, reqDoneAt, now, proc, wakeAt,
                   sleepDur, wd, wdDeadline, doneBuf, response, lastErr, nlog,
                   outcomes, nRequests, nBackoff, nSignals, nKills>>

\* The content was written and the reload command is started (cmd.Start may
\* fail, its error is ignored), the kill timer is armed, and the handler
\* blocks in cmd.Wait.
HandleWritesAndStartsCommand ==
    /\ Running /\ pc = "handle"
    /\ Validate(response) = NoError
    /\ ExecCommand # ""
    /\ file' = WriteString(OpenFile(file), Content(response))
    /\ nWrites' = nWrites + 1
    /\ \E started \in BOOLEAN :
           hook' = IF started THEN "running" ELSE "notstarted"
    /\ hookStatus' = "none"
    /\ nHook' = nHook + 1
    /\ timer' = "armed"
    /\ hookDeadline' = now + Timeout
    /\ \E d \in HookTimes : hookExitAt' = now + d
    /\ pc' = "hookwait"
    /\ UNCHANGED <<cfgvars, csrvars, wirevars, reqDoneAt, now, proc, wakeAt, sleepDur, wd, wdDeadline, doneBuf,
                   response, lastErr, nlog, outcomes, nRequests, nBackoff,
                   nSignals, nKills>>

\* The reload command exits by itself.
HookExits ==
    /\ Running /\ hook = "running"
    /\ now >= hookExitAt
    /\ hook' = "zombie"
    /\ \E st \in {"ok", "failed"} : hookStatus' = st
    /\ UNCHANGED <<cfgvars, csrvars, wirevars, reqDoneAt, hookExitAt, now, proc, pc, wakeAt, sleepDur, wd, wdDeadline,
                   doneBuf, response, file, timer, hookDeadline, lastErr, nlog,
                   outcomes, nRequests, nBackoff, nWrites, nHook, nSignals, nKills>>

\* The time.AfterFunc callback: cmd.Process.Kill(), and the "timed out" line
\* only when Kill itself returns an error (the process was already reaped).
TimerFires ==
    /\ Running /\ timer = "armed"
    /\ now >= hookDeadline
    /\ timer' = "fired"
    /\ nKills' = nKills + 1
    /\ hook' = IF hook = "running" THEN "zombie" ELSE hook
    /\ hookStatus' = IF hook = "running" THEN "killed" ELSE hookStatus
    /\ nlog' = IF hook = "reaped" THEN Logged(nlog, "timed_out") ELSE nlog
    /\ proc' = IF hook = "notstarted" THEN "panic" ELSE proc
    /\ UNCHANGED <<cfgvars, csrvars, wirevars, reqDoneAt, hookExitAt, now, pc, wakeAt, sleepDur, wd, wdDeadline, doneBuf,
                   response, file, hookDeadline, lastErr, outcomes, nRequests,
                   nBackoff, nWrites, nHook, nSignals>>

\* Variant of WaitReturns: the handler does not wait for the child to exit.
WaitReturns_NoWait ==
    /\ Running /\ pc = "hookwait"
    /\ hook' = IF hook = "zombie" THEN "reaped" ELSE hook
    /\ pc' = "stop"
    /\ UNCHANGED <<cfgvars, csrvars, wirevars, reqDoneAt, hookExitAt, now, proc,
                   wakeAt, sleepDur, wd, wdDeadline, doneBuf, response, file,
                   hookStatus, timer, hookDeadline, lastErr, nlog, outcomes,
                   nRequests, nBackoff, nWrites, nHook, nSignals, nKills>>

\* cmd.Wait returns: the child is reaped (or was never started).
WaitReturns ==
    /\ Running /\ pc = "hookwait"
    /\ hook \in {"zombie", "notstarted"}
    /\ hook' = IF hook = "zombie" THEN "reaped" ELSE hook
    /\ pc' = "stop"
    /\ UNCHANGED <<cfgvars, csrvars, wirevars, reqDoneAt, hookExitAt, now, proc, wakeAt, sleepDur, wd, wdDeadline, doneBuf,
                   response, file, hookStatus, timer, hookDeadline, lastErr,
                   nlog, outcomes, nRequests, nBackoff, nWrites, nHook,
                   nSignals, nKills>>

\* timer.Stop(), the error line for a failed command, `return nil`, and the
\* success line of run.  `err` is written by the timer callback and by the
\* handler without synchronisation: when the callback ran, either value may
\* be the one tested.
StopTimer ==
    /\ Running /\ pc = "stop"
    /\ timer' = IF timer = "armed" THEN "stopped" ELSE timer
    /\ \E errSeen \in BOOLEAN :
        /\ timer # "fired" => errSeen = (hookStatus # "ok")
        /\ nlog' = IF errSeen
                   THEN Logged(Logged(nlog, "command_error"), "wrote")
                   ELSE Logged(nlog, "wrote")
    /\ outcomes' = Append(outcomes, "ok")
    /\ pc' = "signal"
    /\ UNCHANGED <<cfgvars, csrvars, wirevars, reqDoneAt, hookExitAt, now, proc, wakeAt, sleepDur, wd, wdDeadline, doneBuf,
                   response, file, hook, hookStatus, hookDeadline, lastErr,
                   nRequests, nBackoff, nWrites, nHook, nSignals, nKills>>

\* ------------------------------------------------- success path of run

\* A send on the channel completes when the watchdog is receiving or the
\* buffer has room; otherwise the sender blocks.
CanSend == wd = "waiting" \/ doneBuf < doneChCap

\* Variant of SendDone: the loop goes on without sending on the channel.
SendDone_Skipped ==
    /\ Running /\ pc = "signal"
    /\ pc' = "mode"
    /\ UNCHANGED <<cfgvars, csrvars, wirevars, reqDoneAt, hookExitAt, now, proc, wakeAt, sleepDur,
                   wd, wdDeadline, doneBuf, response, file, hook, hookStatus,
                   timer, hookDeadline, lastErr, nlog, outcomes, nRequests,
                   nBackoff, nWrites, nHook, nSignals, nKills>>

\* doneCh <- true
SendDone ==
    /\ Running /\ pc = "signal"
    /\ CanSend
    /\ IF wd = "waiting"
       THEN wd' = "done" /\ doneBuf' = doneBuf
       ELSE wd' = wd /\ doneBuf' = doneBuf + 1
    /\ nSignals' = nSignals + 1
    /\ pc' = "mode"
    /\ UNCHANGED <<cfgvars, csrvars, wirevars, reqDoneAt, hookExitAt, now, proc, wakeAt, sleepDur, wdDeadline, response,
                   file, hook, hookStatus, timer, hookDeadline, lastErr, nlog,
                   outcomes, nRequests, nBackoff, nWrites, nHook, nKills>>

\* if c.config.Onetime { os.Exit(0) }
OnetimeExit ==
    /\ Running /\ pc = "mode"
    /\ Onetime
    /\ nlog' = Logged(nlog, "onetime")
    /\ proc' = "exit0"
    /\ UNCHANGED <<cfgvars, csrvars, wirevars, reqDoneAt, hookExitAt, now, pc, wakeAt, sleepDur, wd, wdDeadline, doneBuf,
                   response, file, hook, hookStatus, timer, hookDeadline,
                   lastErr, outcomes, nRequests, nBackoff, nWrites, nHook,
                   nSignals, nKills>>

\* Variant of RotationSleep: the one-shot flag is not consulted.
RotationSleep_IgnoresOnetime ==
    /\ Running /\ pc = "mode"
    /\ nlog' = Logged(nlog, "sleep")
    /\ pc' = "sleep"
    /\ sleepDur' = Expiry
    /\ wakeAt' = now + Expiry
    /\ UNCHANGED <<cfgvars, csrvars, wirevars, reqDoneAt, hookExitAt, now, proc, wd, wdDeadline,
                   doneBuf, response, file, hook, hookStatus, timer,
                   hookDeadline, lastErr, outcomes, nRequests, nBackoff,
                   nWrites, nHook, nSignals, nKills>>

\* time.Sleep(c.config.Expiry)
RotationSleep ==
    /\ Running /\ pc = "mode"
    /\ ~Onetime
    /\ nlog' = Logged(nlog, "sleep")
    /\ pc' = "sleep"
    /\ sleepDur' = Expiry
    /\ wakeAt' = now + Expiry
    /\ UNCHANGED <<cfgvars, csrvars, wirevars, reqDoneAt, hookExitAt, now, proc, wd, wdDeadline, doneBuf, response, file,
                   hook, hookStatus, timer, hookDeadline, lastErr, outcomes,
                   nRequests, nBackoff, nWrites, nHook, nSignals, nKills>>

\* time.Sleep returns and the loop starts its next iteration.
Wake ==
    /\ Running /\ pc \in {"sleep", "backoff"}
    /\ now >= wakeAt
    /\ pc' = "top"
    /\ UNCHANGED <<cfgvars, csrvars, wirevars, reqDoneAt, hookExitAt, now, proc, wakeAt, sleepDur, wd, wdDeadline, doneBuf,
                   response, file, hook, hookStatus, timer, hookDeadline,
                   lastErr, nlog, outcomes, nRequests, nBackoff, nWrites,
                   nHook, nSignals, nKills>>

\* ------------------------------------------------------------- watchdog

\* The timeout branch of the watchdog: the process is terminated.
WatchdogFires ==
    /\ Running /\ wd = "waiting"
    /\ now >= wdDeadline
    /\ wd' = "fired"
    /\ nlog' = Logged(nlog, "fatal_timeout")
    /\ proc' = "fatal"
    /\ UNCHANGED <<cfgvars, csrvars, wirevars, reqDoneAt, hookExitAt, now, pc, wakeAt, sleepDur, wdDeadline, doneBuf,
                   response, file, hook, hookStatus, timer, hookDeadline,
                   lastErr, outcomes, nRequests, nBackoff, nWrites, nHook,
                   nSignals, nKills>>

\* ---------------------------------------------------------------- time

\* The loop is blocked: in the HTTP exchange, in cmd.Wait, in time.Sleep or
\* in a send nobody receives.
Suspended ==
    \/ pc \in {"requesting", "hookwait", "sleep", "backoff"}
    \/ pc = "signal" /\ ~CanSend

Tick ==
    /\ Running /\ Suspended
    /\ now < MaxTime
    /\ wd = "waiting" => now < wdDeadline
    /\ timer = "armed" => now < hookDeadline
    /\ pc \in {"sleep", "backoff"} => now < wakeAt
    /\ pc = "requesting" => now < reqDoneAt
    /\ pc = "hookwait" => hook = "running" /\ now < hookExitAt
    /\ now' = now + 1
    /\ UNCHANGED <<cfgvars, csrvars, wirevars, reqDoneAt, hookExitAt, proc, pc, wakeAt, sleepDur, wd, wdDeadline, doneBuf,
                   response, file, hook, hookStatus, timer, hookDeadline,
                   lastErr, nlog, outcomes, nRequests, nBackoff, nWrites,
                   nHook, nSignals, nKills>>

Next ==
    \/ StartupFail \/ StartupOk
    \/ BeginAttempt \/ SigningFails \/ SigningResponds
    \/ HandlePanics \/ HandleRejects \/ HandleOpenFails \/ HandleWriteFails
    \/ HandleWritesNoCommand \/ HandleWritesAndStartsCommand
    \/ HookExits \/ TimerFires \/ WaitReturns \/ StopTimer
    \/ SendDone \/ OnetimeExit \/ RotationSleep \/ Wake
    \/ WatchdogFires \/ Tick

Spec == Init /\ [][Next]_vars

SpecWire == InitWire /\ [][Next]_vars

\* =================================================================== claims

Last(s) == s[Len(s)]
Contains(err, m) == \E i \in 1..Len(err) : err[i] = m
NumOk == Cardinality({i \in 1..Len(outcomes) : outcomes[i] = "ok"})

\* The current attempt has finished and it failed.
AttemptFailed ==
    /\ nRequests > 0 /\ Len(outcomes) = nRequests
    /\ Last(outcomes) # "ok"

\* The loop has executed `doneCh <- true` for its first success.
PastFirstSignal == NumOk >= 2 \/ (NumOk = 1 /\ pc # "signal")

\* The handler is entered with the response and this step leaves it.
HandlerStep == pc = "handle" /\ (pc' # "handle" \/ Len(outcomes') > Len(outcomes))

\* The handler step did not fail in OpenFile or WriteString.
NoIOFailure == ~(Len(outcomes') > Len(outcomes) /\ Last(outcomes') \in {"open", "write"})

\* C1: in continuous mode every successful acquisition is followed by the
\* sleep of exactly the rotation interval and a new request: a loop that has
\* acquired a certificate is never stuck before its sleep, and the rotation
\* sleep is the configured interval.
C1_RotationNeverStops ==
    ~Onetime =>
        /\ (Running /\ pc = "signal") => CanSend
        /\ pc = "sleep" => (sleepDur = Expiry /\ wakeAt <= now + Expiry)

\* C2: when the reload hook is killed for exceeding the timeout, the process
\* is still running (or has exited 0 in one-shot mode), a timeout line has
\* been logged once the handler returned, and the loop goes on to the normal
\* rotation sleep.
C2_HookTimeoutNotFatal ==
    hookStatus = "killed" =>
        /\ proc \in {"running", "exit0"}
        /\ pc \in {"signal", "mode", "sleep"} => nlog["timed_out"] >= 1
        /\ pc = "sleep" => sleepDur = Expiry

\* C3: a failed attempt (transport failure, rejected response, write failure)
\* never terminates the process by itself: the failure is logged and the loop
\* is in, or back from, the 5-second backoff.
C3_FailuresNeverTerminate ==
    (AttemptFailed /\ proc # "fatal") =>
        /\ proc = "running"
        /\ pc \in {"backoff", "top"}
        /\ sleepDur = RetryBackoff
        /\ nlog["signing_failed"] + nlog["process_failed"] = Len(outcomes) - NumOk

\* C4: the watchdog terminates the process exactly when the operational
\* timeout elapses before the loop has signalled its first success: time
\* never passes the deadline with the watchdog still waiting, a fired
\* watchdog means a fatal exit, and a fatal exit never follows the signal.
C4_WatchdogDeadline ==
    /\ (Running /\ wd = "waiting") => now <= wdDeadline
    /\ wd = "fired" <=> proc = "fatal"
    /\ proc = "fatal" => (~PastFirstSignal /\ now >= wdDeadline)
    /\ PastFirstSignal => wd = "done"

C4_Witness == proc = "fatal" /\ nBackoff >= 1 /\ nSignals = 0

\* C5: once the first success has been signalled, no later rotation is ended
\* by the operational timeout, however long its attempts and retries take.
C5_NoDeadlineAfterFirstSuccess ==
    PastFirstSignal => (proc # "fatal" /\ wd # "waiting" /\ nlog["fatal_timeout"] = 0)

C5_Witness ==
    /\ Running /\ nSignals >= 1
    /\ AttemptFailed /\ pc = "top"
    /\ now > wakeAt - RetryBackoff + Timeout

\* C6: in one-shot mode the first success ends the process with status 0;
\* the loop never sleeps the rotation interval and sends no further request.
C6_OnetimeExits ==
    /\ Onetime => (pc # "sleep" /\ nlog["sleep"] = 0 /\ NumOk <= 1)
    /\ (Onetime /\ PastFirstSignal) =>
           (pc = "mode" /\ Len(outcomes) = nRequests /\ Last(outcomes) = "ok")
    /\ proc = "exit0" => (Onetime /\ PastFirstSignal)

C6_Witness == proc = "exit0" /\ nBackoff >= 1

\* C7: when the first two attempts fail in the transport and the third
\* succeeds, exactly two backoff sleeps of 5 seconds precede the success and
\* the certificate file is untouched during the failed attempts.
C7_TwoBackoffsThenSuccess ==
    /\ (Len(outcomes) \in 1..2 /\ Len(outcomes) = nRequests
        /\ \A i \in 1..Len(outcomes) : outcomes[i] = "transport")
           => (nWrites = 0 /\ file \in OldFiles /\ nBackoff = Len(outcomes)
               /\ sleepDur = RetryBackoff)
    /\ (Len(outcomes) >= 3 /\ outcomes[1] = "transport" /\ outcomes[2] = "transport"
        /\ outcomes[3] = "ok" /\ nRequests = 3)
           => (nBackoff = 2 /\ nWrites = 1 /\ now >= 2 * RetryBackoff)

C7_Witness ==
    /\ outcomes = <<"transport", "transport", "ok">>
    /\ pc = "signal" /\ Running

\* C8: a response with success=false and a non-empty errors list is answered
\* with an error that contains the first error's message, and the
\* certificate file is not touched.
C8_UnsuccessfulResponseRejected ==
    [][(HandlerStep /\ ~response.success /\ Len(response.errors) > 0) =>
          /\ file' = file /\ nWrites' = nWrites /\ nHook' = nHook
          /\ Contains(lastErr', response.errors[1])
          /\ pc' = "backoff"]_vars

C8_Witness ==
    /\ pc = "backoff" /\ AttemptFailed /\ Last(outcomes) = "rejected"
    /\ ~response.success /\ lastErr[2] = "m1"

\* C9 (as stated): every response with success=true and a non-empty bundle
\* leaves the bundle text in the certificate file (I/O failures aside).
C9_BundleAlwaysWritten ==
    [][(HandlerStep /\ response.success /\ response.bundle # <<>> /\ NoIOFailure) =>
          file'.content = response.bundle]_vars

\* C9 (amended): for a response with success=true and a non-empty
\* certificate, when neither OpenFile nor WriteString fails, the certificate
\* file afterwards holds exactly the bundle, or exactly the certificate when
\* there is no bundle, whatever the file held before.
C9_PersistedContent ==
    [][(HandlerStep /\ response.success /\ response.certificate # <<>> /\ NoIOFailure) =>
          /\ file'.exists
          /\ file'.content = (IF response.bundle # <<>> THEN response.bundle
                              ELSE response.certificate)
          /\ nWrites' = nWrites + 1]_vars

C9_Witness ==
    /\ pc \in {"signal", "hookwait"}
    /\ response.success /\ response.bundle = <<1, 2>>
    /\ file.mode # FileMode0600 /\ file.content = <<1, 2>>

\* C10: a response with success=true and an empty certificate is rejected
\* with an error; nothing is written and the reload hook is not started.
C10_EmptyCertificateRejected ==
    [][(HandlerStep /\ response.success /\ response.certificate = <<>>) =>
          /\ file' = file /\ nWrites' = nWrites
          /\ nHook' = nHook /\ hook' = hook /\ timer' = timer
          /\ lastErr' # NoError
          /\ pc' = "backoff"]_vars

C10_Witness ==
    /\ pc = "backoff" /\ AttemptFailed /\ Last(outcomes) = "rejected"
    /\ response.success /\ response.certificate = <<>> /\ response.bundle # <<>>

\* The attempt finishes in this step, and it fails with one of `kinds`.
FailsWith(kinds) == Len(outcomes') > Len(outcomes) /\ Last(outcomes') \in kinds

\* The reload command of the current rotation is being run by the handler.
InHandlerHook == pc \in {"hookwait", "stop"}

\* C11: a reload hook that exits non-zero or is killed is never fatal and
\* never causes a retry: after a kill the process keeps running (or exits 0
\* in one-shot mode), the attempt counts as a success, the loop is not stuck
\* before its rotation sleep, and the hook is run at most once per attempt.
C11_HookFailureNotFatal ==
    hookStatus \in {"failed", "killed"} =>
        /\ hookStatus = "killed" => proc \in {"running", "exit0"}
        /\ (Running /\ pc = "signal") => CanSend
        /\ (pc \in {"signal", "mode", "sleep"} /\ nHook = nRequests)
               => (Len(outcomes) = nRequests /\ Last(outcomes) = "ok")
        /\ nHook <= nRequests

\* C12: one key and one encoded CSR are made, before the first request, and
\* every request on the wire carries that encoding, the configured profile
\* and bundle=true.
C12_OneCsrSameRequest ==
    /\ nCsr <= 1
    /\ nRequests > 0 => (nCsr = 1 /\ encoded \in CsrEncodings)
    /\ Cardinality(sent) <= 1
    /\ \A m \in sent :
           m.body[Len(m.body)] = [certificate_request |-> encoded,
                                  profile |-> EndpointProfile, bundle |-> TRUE]

C12_Witness ==
    /\ nPosts = 3 /\ NumOk >= 1 /\ NumOk < Len(outcomes)
    /\ Cardinality(sent) = 1

\* C13: after a successful write by the handler the certificate file has
\* mode 0600, whether it was created or existed before.
C13_FileModeOwnerOnly ==
    (nWrites >= 1 /\ pc \in {"hookwait", "stop", "signal", "mode", "sleep"}) =>
        (file.exists /\ file.mode = FileMode0600)

\* C14: the send of the success signal never blocks the loop: the watchdog
\* takes the first signal, and a signal sent when the watchdog has gone can
\* still be delivered.
C14_SignalNeverBlocks ==
    /\ wd = "done" => nSignals >= 1
    /\ (Running /\ pc = "signal" /\ wd # "waiting") => doneBuf < doneChCap

\* C15: the content is in the file before the reload command is started, and
\* the command has been reaped (or was never started) before the loop
\* signals success, sleeps or sends another request.
C15_WriteThenHookThenSleep ==
    /\ hook \in {"running", "zombie"} => pc = "hookwait"
    /\ pc \in {"signal", "mode", "sleep", "backoff", "top", "requesting", "handle"}
           => (hook \in {"none", "notstarted", "reaped"} /\ timer # "armed")
    /\ InHandlerHook =>
           /\ nWrites >= nHook
           /\ file.exists
           /\ file.content = (IF response.bundle # <<>> THEN response.bundle
                              ELSE response.certificate)

C15_Witness ==
    /\ pc = "sleep" /\ hook = "reaped" /\ hookStatus = "killed"
    /\ nHook = 1 /\ nWrites = 1 /\ sleepDur = Expiry

\* C16: the kill timer never fires on a child that has already exited, and
\* it is not armed once the handler has returned.
C16_NoKillAfterExit ==
    /\ timer = "fired" => hookStatus = "killed"
    /\ ~InHandlerHook => timer # "armed"

\* C17: the reload command is invoked once for every attempt that wrote the
\* certificate, never in an attempt that failed, and never when no command
\* is configured.
C17_HookOncePerSuccess ==
    /\ ExecCommand = "" => (nHook = 0 /\ hook = "none" /\ timer = "off")
    /\ ExecCommand # "" =>
           nHook = NumOk + (IF InHandlerHook THEN 1 ELSE 0)
    /\ AttemptFailed => ~InHandlerHook

C17_Witness ==
    /\ ExecCommand # "" /\ nHook = 2
    /\ Len(outcomes) = 3 /\ NumOk = 2 /\ pc = "signal"

\* C18: a start-up failure ends the process with a non-zero status before
\* the loop: nothing was requested, nothing written, no watchdog started;
\* and the loop only ever runs after a completed start-up.
C18_StartupFailureAborts ==
    /\ proc = "exit1" =>
           /\ pc = "idle" /\ lastErr # NoError
           /\ nRequests = 0 /\ nPosts = 0 /\ sent = {}
           /\ nWrites = 0 /\ file \in OldFiles
           /\ wd = "off"
    /\ (nRequests > 0 \/ nWrites > 0 \/ wd # "off") => (nCsr = 1 /\ pc # "idle")

C18_Witness == proc = "exit1" /\ lastErr = <<"encode">>

\* C19: the request goes to the authsign path in the token envelope exactly
\* when a token is configured, otherwise to the sign path as the plain
\* request; one POST per call; a failed call leaves no response.
C19_SigningClient ==
    /\ \A m \in sent :
           /\ m.path = (IF EndpointToken # "" THEN "/api/v1/cfssl/authsign"
                        ELSE "/api/v1/cfssl/sign")
           /\ Len(m.body) = (IF EndpointToken # "" THEN 2 ELSE 1)
           /\ EndpointToken # "" => m.body[1] = EndpointToken
           /\ m.body[Len(m.body)].certificate_request = encoded
    /\ nPosts = nRequests
    /\ (AttemptFailed /\ Last(outcomes) = "transport") => response = NoResponse

C19_Witness ==
    /\ EndpointToken # "" /\ nPosts = 2
    /\ AttemptFailed /\ Last(outcomes) = "transport" /\ pc = "backoff"

\* C20 (as stated): every failed attempt leaves the certificate file as it
\* was before the attempt.
C20_FailedAttemptKeepsFile ==
    [][FailsWith({"transport", "rejected", "open", "write"}) => file' = file]_vars

\* C20 (amended): the file changes only in the handler, after the response
\* has passed the checks; an attempt that fails in the signing call, in the
\* checks or in OpenFile leaves the file unchanged, and one that fails in
\* WriteString leaves it truncated to a proper prefix of the new content.
C20_FailedAttemptFrame ==
    [][/\ file' # file => (pc = "handle" /\ Validate(response) = NoError)
       /\ FailsWith({"transport", "rejected", "open"})
              => (file' = file /\ nWrites' = nWrites)
       /\ FailsWith({"write"})
              => (file'.content # Content(response)
                  /\ file'.content = SubSeq(Content(response), 1, Len(file'.content)))]_vars

C20_Witness ==
    /\ NumOk >= 1 /\ AttemptFailed /\ Last(outcomes) \in {"open", "rejected"}
    /\ file.content = <<1, 2>> /\ pc = "backoff"

====
